---- MODULE Spec2Model ----
(***************************************************************************)
(* Model of the metrics aggregator (FinancialCalculator) and the pattern   *)
(* detector (PatternDetector) of the personal finance analyzer, called one *)
(* by one (Spec) and by the agent that plans and runs an analysis          *)
(* (AgentSpec).                                                            *)
(*                                                                         *)
(* Numbers are JavaScript numbers.  A finite value is an exact fraction    *)
(* n/d in lowest terms; the three non-finite values NaN, Infinity and      *)
(* -Infinity are kept apart so that a division by zero is visible.         *)
(* Rounding of binary floating point is modelled where it decides a        *)
(* comparison between two values that are equal as fractions: the anomaly  *)
(* threshold of thresholdRoundsBelow.                                      *)
(* Timestamps are whole seconds (the code's milliseconds / 1000).          *)
(* Strings that the code inspects character by character are sequences of  *)
(* one-character strings.                                                  *)
(***************************************************************************)
EXTENDS Integers, Sequences, FiniteSets, TLC

VARIABLES
  transactions,      \* the categorized transactions handed to the tools
  metrics,           \* <<>> (null) or <<m>>, m the FinancialMetrics returned
  patterns,          \* the DetectedPattern list returned
  returned,          \* the tools that have returned a result
  pc,                \* the statement of detectPatterns to run next
  found,             \* detectPatterns' local array `patterns`
  recurringOutput,   \* detectPatterns' local constant recurringPatterns
  plan,              \* <<>> or the tools of plan.steps, analyzeFinances' plan
  stepIndex,         \* the loop variable i of analyzeFinances
  executed,          \* the tools logged by the loop of analyzeFinances
  insights,          \* <<>> or the arguments generateInsights was called with
  report             \* <<>> or the report analyzeFinances returns

agentVars == <<plan, stepIndex, executed, insights, report>>

vars ==
  <<transactions, metrics, patterns, returned, pc, found, recurringOutput,
    plan, stepIndex, executed, insights, report>>

----------------------------------------------------------------------------
(* JavaScript numbers *)

RECURSIVE GCD(_, _)
GCD(a, b) == IF b = 0 THEN a ELSE GCD(b, a % b)

AbsInt(i) == IF i < 0 THEN -i ELSE i

NaN == [k |-> "NaN", n |-> 0, d |-> 1]
Infinity == [k |-> "Infinity", n |-> 1, d |-> 1]
NegInfinity == [k |-> "-Infinity", n |-> -1, d |-> 1]

\* the finite number n/d (d # 0), in lowest terms with a positive denominator
Num(n, d) ==
  LET g == GCD(AbsInt(n), AbsInt(d))
      s == IF d < 0 THEN -1 ELSE 1
  IN [k |-> "num", n |-> s * (n \div g), d |-> s * (d \div g)]

Val(i) == [k |-> "num", n |-> i, d |-> 1]

IsNaN(x) == x.k = "NaN"
IsFinite(x) == x.k = "num"
Sign(x) == IF x.n > 0 THEN 1 ELSE IF x.n < 0 THEN -1 ELSE 0

Neg(x) ==
  CASE x.k = "num" -> [k |-> "num", n |-> -x.n, d |-> x.d]
    [] x.k = "Infinity" -> NegInfinity
    [] x.k = "-Infinity" -> Infinity
    [] OTHER -> NaN

Add(x, y) ==
  CASE IsNaN(x) \/ IsNaN(y) -> NaN
    [] IsFinite(x) /\ IsFinite(y) ->
         LET g == GCD(x.d, y.d)
         IN Num(x.n * (y.d \div g) + y.n * (x.d \div g), (x.d \div g) * y.d)
    [] IsFinite(x) -> y
    [] IsFinite(y) -> x
    [] OTHER -> IF x = y THEN x ELSE NaN

Sub(x, y) == Add(x, Neg(y))

Mul(x, y) ==
  CASE IsNaN(x) \/ IsNaN(y) -> NaN
    [] IsFinite(x) /\ IsFinite(y) ->
         LET g == GCD(AbsInt(x.n), y.d)
             h == GCD(AbsInt(y.n), x.d)
         IN Num((x.n \div g) * (y.n \div h), (x.d \div h) * (y.d \div g))
    [] Sign(x) * Sign(y) > 0 -> Infinity
    [] Sign(x) * Sign(y) < 0 -> NegInfinity
    [] OTHER -> NaN

Div(x, y) ==
  CASE IsNaN(x) \/ IsNaN(y) -> NaN
    [] IsFinite(x) /\ IsFinite(y) ->
         IF y.n # 0
         THEN LET g == GCD(AbsInt(x.n), AbsInt(y.n))
                  h == GCD(x.d, y.d)
              IN Num((x.n \div g) * (y.d \div h), (x.d \div h) * (y.n \div g))
         ELSE IF x.n > 0 THEN Infinity
         ELSE IF x.n < 0 THEN NegInfinity
         ELSE NaN
    [] IsFinite(x) -> Val(0)
    [] IsFinite(y) -> IF Sign(x) * (IF y.n < 0 THEN -1 ELSE 1) > 0
                      THEN Infinity ELSE NegInfinity
    [] OTHER -> NaN

\* x > y; false as soon as one side is NaN
Gt(x, y) ==
  CASE IsNaN(x) \/ IsNaN(y) -> FALSE
    [] IsFinite(x) /\ IsFinite(y) ->
         LET g == GCD(x.d, y.d)
         IN x.n * (y.d \div g) > y.n * (x.d \div g)
    [] OTHER -> x # y /\ (x.k = "Infinity" \/ y.k = "-Infinity")

Lt(x, y) == Gt(y, x)
Ge(x, y) == ~IsNaN(x) /\ ~IsNaN(y) /\ ~Gt(y, x)
Le(x, y) == Ge(y, x)

MathAbs(x) == IF x.k = "-Infinity" THEN Infinity
              ELSE IF x.k = "num" THEN [x EXCEPT !.n = AbsInt(x.n)]
              ELSE x

\* a || b on numbers: 0 and NaN are falsy
OrElse(a, b) == IF IsNaN(a) \/ (IsFinite(a) /\ a.n = 0) THEN b ELSE a

\* Math.min(...xs) and Math.max(...xs) over a sequence of numbers
MathMin(xs) ==
  IF Len(xs) = 0 THEN Infinity
  ELSE CHOOSE m \in {xs[i] : i \in 1..Len(xs)} :
         \A i \in 1..Len(xs) : Le(m, xs[i])

MathMax(xs) ==
  IF Len(xs) = 0 THEN NegInfinity
  ELSE CHOOSE m \in {xs[i] : i \in 1..Len(xs)} :
         \A i \in 1..Len(xs) : Ge(m, xs[i])

\* new Date(x).getTime(): a non-finite time value gives an invalid date
DateGetTime(x) == IF IsFinite(x) THEN x ELSE NaN

RECURSIVE SumFrom(_, _)
\* xs.reduce((a, b) => a + b, 0) over a sequence of numbers
SumFrom(xs, i) == IF i > Len(xs) THEN Val(0) ELSE Add(xs[i], SumFrom(xs, i + 1))
Sum(xs) == SumFrom(xs, 1)

----------------------------------------------------------------------------
(* Arrays and Maps *)

\* a function on 1..n as an array value
Array(f) == <<>> \o f

RECURSIVE SetToSeq(_)
\* the elements of a finite set of integers, ascending
SetToSeq(S) ==
  IF S = {} THEN <<>>
  ELSE LET m == CHOOSE x \in S : \A y \in S : x <= y
       IN <<m>> \o SetToSeq(S \ {m})

\* a sort that puts the later of two equal elements first
SortTiesReversed(s, cmp) ==
  LET before(i, j) ==
        \/ Lt(cmp[i][j], Val(0))
        \/ ~Lt(cmp[i][j], Val(0)) /\ ~Lt(cmp[j][i], Val(0)) /\ i > j
      rank == Array([i \in 1..Len(s) |->
                Cardinality({j \in 1..Len(s) : j # i /\ before(j, i)}) + 1])
  IN Array([p \in 1..Len(s) |-> s[CHOOSE i \in 1..Len(s) : rank[i] = p]])

\* Array.prototype.sort, cmp[i][j] being the comparator's result for (s[i],
\* s[j]): stable; a negative result puts a first, a positive one b first, zero
\* and NaN keep the order
Sort(s, cmp) ==
  LET before(i, j) ==
        \/ Lt(cmp[i][j], Val(0))
        \/ ~Lt(cmp[i][j], Val(0)) /\ ~Lt(cmp[j][i], Val(0)) /\ i < j
      rank == Array([i \in 1..Len(s) |->
                Cardinality({j \in 1..Len(s) : j # i /\ before(j, i)}) + 1])
  IN Array([p \in 1..Len(s) |-> s[CHOOSE i \in 1..Len(s) : rank[i] = p]])

\* The entries [key, value] of a Map<K, T[]> filled by one pass over s that
\* appends each element to the array under its key (key[i] for s[i]), in
\* insertion order
MapEntries(s, key) ==
  LET keys == Array(key)
      first == {i \in 1..Len(s) : \A j \in 1..(i - 1) : keys[j] # keys[i]}
      idx == SetToSeq(first)
      members(k) == SetToSeq({i \in 1..Len(s) : keys[i] = k})
  IN Array([p \in 1..Len(idx) |->
        [key |-> keys[idx[p]],
         value |-> LET m == members(keys[idx[p]])
                   IN Array([q \in 1..Len(m) |-> s[m[q]]])]])

Amounts(s) == Array([i \in 1..Len(s) |-> s[i].amount])

\* the filter on isIncome left out
allOf(txns) == txns

\* transactions.filter((t) => !t.isIncome)
expensesOf(txns) == SelectSeq(txns, LAMBDA t : ~t.isIncome)

----------------------------------------------------------------------------
(* FinancialCalculator *)

DayLength == 60 * 60 * 24

calculateCategoryBreakdown(expenses) ==
  LET byCategory == 
        MapEntries(expenses,
                   [i \in 1..Len(expenses) |-> expenses[i].category])
      totalSpending == Sum(Amounts(expenses))
      breakdown ==
        Array([i \in 1..Len(byCategory) |->
          LET total == Sum(Amounts(byCategory[i].value))
          IN [category |-> byCategory[i].key,
              total |-> total,
              percentage |-> Mul(Div(total, totalSpending), Val(100)),
              transactionCount |-> Len(byCategory[i].value)]])
  IN Sort(breakdown,
          [a \in 1..Len(breakdown) |-> [b \in 1..Len(breakdown) |->
             Sub(breakdown[b].total, breakdown[a].total)]])

calculateMetrics(txns) ==
  LET income == SelectSeq(txns, LAMBDA t : t.isIncome)
      expenses == expensesOf(txns)
      totalIncome == Sum(Amounts(income))
      totalSpending == Sum(Amounts(expenses))
      dates == Array([i \in 1..Len(txns) |-> Val(txns[i].date)])
      minDate == DateGetTime(MathMin(dates))
      maxDate == DateGetTime(MathMax(dates))
      daysDiff == Div(Sub(maxDate, minDate), Val(DayLength))
      monthsDiff == Div(daysDiff, Val(30))
  IN [totalSpending |-> totalSpending,
      totalIncome |-> totalIncome,
      netCashFlow |-> Sub(totalIncome, totalSpending),
      averageDaily |-> Div(totalSpending, OrElse(daysDiff, Val(1))),
      averageMonthly |-> Div(totalSpending, OrElse(monthsDiff, Val(1))),
      categoryBreakdown |-> calculateCategoryBreakdown(expenses)]

----------------------------------------------------------------------------
(* Strings and dates *)

UpperCase == <<"A", "B", "C", "D", "E", "F", "G", "H", "I", "J", "K", "L", "M",
               "N", "O", "P", "Q", "R", "S", "T", "U", "V", "W", "X", "Y", "Z">>
LowerCase == <<"a", "b", "c", "d", "e", "f", "g", "h", "i", "j", "k", "l", "m",
               "n", "o", "p", "q", "r", "s", "t", "u", "v", "w", "x", "y", "z">>
DigitChars == <<"0", "1", "2", "3", "4", "5", "6", "7", "8", "9">>
Range(s) == {s[i] : i \in 1..Len(s)}
\* the characters the regular expression class \s matches (those modelled)
WhiteSpace == {" ", "\t", "\n"}

toLowerCase(s) ==
  Array([i \in 1..Len(s) |->
     IF s[i] \in Range(UpperCase)
     THEN LowerCase[CHOOSE j \in 1..Len(UpperCase) : UpperCase[j] = s[i]]
     ELSE s[i]])

trim(s) ==
  LET keep == {i \in 1..Len(s) : s[i] \notin WhiteSpace}
  IN IF keep = {} THEN <<>>
     ELSE SubSeq(s, CHOOSE i \in keep : \A j \in keep : i <= j,
                    CHOOSE i \in keep : \A j \in keep : i >= j)

RECURSIVE splitWhiteSpace(_)
\* s.split(/\s+/)
splitWhiteSpace(s) ==
  LET ws == {i \in 1..Len(s) : s[i] \in WhiteSpace}
  IN IF ws = {} THEN <<s>>
     ELSE LET i == CHOOSE a \in ws : \A b \in ws : a <= b
              after == {j \in (i + 1)..Len(s) : s[j] \notin WhiteSpace}
              j == IF after = {} THEN Len(s) + 1
                   ELSE CHOOSE a \in after : \A b \in after : a <= b
          IN <<SubSeq(s, 1, i - 1)>> \o splitWhiteSpace(SubSeq(s, j, Len(s)))

RECURSIVE join(_, _)
join(tokens, sep) ==
  IF Len(tokens) = 0 THEN <<>>
  ELSE IF Len(tokens) = 1 THEN tokens[1]
  ELSE tokens[1] \o sep \o join(Tail(tokens), sep)

\* every word kept
sliceAll(tokens) == tokens

\* .slice(0, 3)
sliceThree(tokens) ==
  SubSeq(tokens, 1, IF Len(tokens) < 3 THEN Len(tokens) ELSE 3)

normalizeDescription(desc) ==
  LET lower == toLowerCase(desc)
      noDigits == SelectSeq(lower, LAMBDA c : c \notin Range(DigitChars))
      noSpecial == SelectSeq(noDigits,
                     LAMBDA c : c \in Range(LowerCase) \cup WhiteSpace)
      tokens == splitWhiteSpace(trim(noSpecial))
  IN join(sliceThree(tokens), <<" ">>)

\* Calendar of the local time zone: timestamp 0 is 1 January 2023, 00:00, and
\* years have 365 days (the dates of the model end before March 2024).
MonthLengths == <<31, 28, 31, 30, 31, 30, 31, 31, 30, 31, 30, 31>>

RECURSIVE DaysBefore(_)
DaysBefore(m) == IF m = 0 THEN 0 ELSE MonthLengths[m] + DaysBefore(m - 1)

getFullYear(date) == 2023 + (date \div DayLength) \div 365

\* 0 for January .. 11 for December
getMonth(date) ==
  LET doy == (date \div DayLength) % 365
  IN CHOOSE m \in 0..11 : DaysBefore(m) <= doy /\ doy < DaysBefore(m + 1)

RECURSIVE String(_)
\* String(n) for a natural number n
String(n) ==
  IF n < 10 THEN <<DigitChars[n + 1]>>
  ELSE String(n \div 10) \o <<DigitChars[(n % 10) + 1]>>

padStart2(s) == IF Len(s) < 2 THEN <<"0">> \o s ELSE s

\* a.localeCompare(b) on strings of digits and "-": -1, 0 or 1
CharOrder == <<"-">> \o DigitChars
CharRank(c) == CHOOSE i \in 1..Len(CharOrder) : CharOrder[i] = c

localeCompare(a, b) ==
  LET n == IF Len(a) < Len(b) THEN Len(a) ELSE Len(b)
      diff == {i \in 1..n : a[i] # b[i]}
  IN IF diff = {}
     THEN (IF Len(a) < Len(b) THEN -1 ELSE IF Len(a) > Len(b) THEN 1 ELSE 0)
     ELSE LET i == CHOOSE x \in diff : \A y \in diff : x <= y
          IN IF CharRank(a[i]) < CharRank(b[i]) THEN -1 ELSE 1

----------------------------------------------------------------------------
(* PatternDetector *)

\* a pattern without its transactions
PatternAlone(type, subject, numbers, txns, severity, impact) ==
  [type |-> type, description |-> [subject |-> subject, numbers |-> numbers],
   transactions |-> <<>>, severity |-> severity, impact |-> impact]

\* A DetectedPattern.  Of the description text the model keeps the values the
\* template interpolates: a subject (a string) and numbers.
Pattern(type, subject, numbers, txns, severity, impact) ==
  [type |-> type, description |-> [subject |-> subject, numbers |-> numbers],
   transactions |-> txns, severity |-> severity, impact |-> impact]

RECURSIVE Flatten(_)
Flatten(ss) == IF Len(ss) = 0 THEN <<>> ELSE Head(ss) \o Flatten(Tail(ss))

descKey(t) == normalizeDescription(t.description)

\* amounts.every((amt) => Math.abs(amt - avgAmount) < avgAmount * 0.1)
similarAmounts(amounts, avgAmount) ==
  \A i \in 1..Len(amounts) :
    Lt(MathAbs(Sub(amounts[i], avgAmount)), Mul(avgAmount, Num(1, 10)))

\* the average gap between consecutive dates, in days
daysInterval(txns) ==
  LET times == Array([i \in 1..Len(txns) |-> Val(txns[i].date)])
      dates == Sort(times, [a \in 1..Len(times) |-> [b \in 1..Len(times) |->
                             Sub(times[a], times[b])]])
      intervals == Array([i \in 1..(Len(dates) - 1) |->
                            Sub(dates[i + 1], dates[i])])
      avgInterval == Div(Sum(intervals), Val(Len(intervals)))
  IN Div(avgInterval, Val(DayLength))

\* the window without its end points
openCadence(days) == Gt(days, Val(25)) /\ Lt(days, Val(35))

\* if (daysInterval >= 25 && daysInterval <= 35)
monthlyCadence(days) == Ge(days, Val(25)) /\ Le(days, Val(35))

\* the amount of one month
monthlyCost(avgAmount) == avgAmount

\* impact: avgAmount * 12, the annual cost
annualCost(avgAmount) == Mul(avgAmount, Val(12))

\* the patterns pushed for one entry (txns, desc) of descriptionGroups
recurringForGroup(txns, desc) ==
  LET amounts == Amounts(txns)
      avgAmount == Div(Sum(amounts), Val(Len(amounts)))
  IN IF Len(txns) >= 2
        /\ similarAmounts(amounts, avgAmount)
        /\ monthlyCadence(daysInterval(txns))
     THEN <<Pattern("recurring_charge", desc, <<avgAmount>>, txns,
                    IF Gt(avgAmount, Val(50)) THEN "medium" ELSE "low",
                    annualCost(avgAmount))>>
     ELSE <<>>

\* the grouping, had it skipped income
groupedExpenses(txns) == SelectSeq(txns, LAMBDA t : ~t.isIncome)

\* transactions.forEach((t) => { ... existing.push(t); ... }): every
\* transaction is grouped, income too
groupedTransactions(txns) == txns

findRecurringCharges(txns) ==
  LET grouped == groupedTransactions(txns)
      descriptionGroups ==
        MapEntries(grouped, [i \in 1..Len(grouped) |-> descKey(grouped[i])])
  IN Flatten([i \in 1..Len(descriptionGroups) |->
                recurringForGroup(descriptionGroups[i].value,
                                  descriptionGroups[i].key)])

\* the exclusion set left empty
noDescriptions(recurringPatterns) == {}

\* the Set of normalized descriptions of the recurring patterns' transactions
recurringDescriptions(recurringPatterns) ==
  UNION {{descKey(recurringPatterns[i].transactions[j]) :
            j \in 1..Len(recurringPatterns[i].transactions)} :
         i \in 1..Len(recurringPatterns)}

\* nine amounts of 2 followed by one of 100: avg is 11.8 and stdDev 29.4 as
\* fractions, and avg + 3 * stdDev is 99.99999999999999 as a double
NineTwosThenHundred ==
  <<Val(2), Val(2), Val(2), Val(2), Val(2), Val(2), Val(2), Val(2), Val(2),
    Val(100)>>

\* whether the double avg + 3 * stdDev of these amounts is less than the
\* fraction mean + 3 * stddev; it is not for the other amounts of Inputs
\* that have an amount equal to that fraction
thresholdRoundsBelow(amounts) == amounts = NineTwosThenHundred

\* amount > avg + 3 * Math.sqrt(variance), decided without the square root:
\* amount - avg > 0 and (amount - avg)^2 > 9 * variance, or the two are equal
\* and the threshold was rounded below
aboveThreeSigma(amount, avg, variance, below) ==
  LET diff == Sub(amount, avg)
  IN /\ Gt(diff, Val(0))
     /\ \/ Gt(Mul(diff, diff), Mul(Val(9), variance))
        \/ below /\ Mul(diff, diff) = Mul(Val(9), variance)

\* the threshold included
anomalySeverityFrom(amount) == IF Ge(amount, Val(1000)) THEN "high" ELSE "medium"

\* severity: t.amount > 1000 ? "high" : "medium"
anomalySeverity(amount) == IF Gt(amount, Val(1000)) THEN "high" ELSE "medium"

\* amounts.reduce((a, b) => a + b, 0) / amounts.length
mean(amounts) == Div(Sum(amounts), Val(Len(amounts)))

\* the argument of Math.sqrt: the mean of the squared distances to avg
variance(amounts, avg) ==
  Div(Sum(Array([i \in 1..Len(amounts) |->
                   Mul(Sub(amounts[i], avg), Sub(amounts[i], avg))])),
      Val(Len(amounts)))

findAnomalies(txns, recurringPatterns) ==
  LET excluded == recurringDescriptions(recurringPatterns)
      amounts == Amounts(expensesOf(txns))
      avg == mean(amounts)
      var == variance(amounts, avg)
      forOne(t) ==
        IF ~t.isIncome
           /\ descKey(t) \notin excluded
           /\ aboveThreeSigma(t.amount, avg, var, thresholdRoundsBelow(amounts))
        THEN <<Pattern("anomaly", t.description, <<t.amount>>, <<t>>,
                       anomalySeverity(t.amount), t.amount)>>
        ELSE <<>>
  IN IF Len(amounts) = 0 THEN <<>>
     ELSE Flatten([i \in 1..Len(txns) |-> forOne(txns[i])])

\* `${t.date.getFullYear()}-${t.date.getMonth()}`
spikeMonthKey(t) ==
  String(getFullYear(t.date)) \o <<"-">> \o String(getMonth(t.date))

\* the threshold at twice the average
spikeAboveDouble(max, avg) == Gt(max, Mul(avg, Val(2)))

\* if (max > avg * 1.5)
spikeAbove(max, avg) == Gt(max, Mul(avg, Num(3, 2)))

\* the pattern pushed for one entry (totals, category) of categoryMonthlyTotals
spikeForCategory(totals, category) ==
  LET avg == Div(Sum(totals), Val(Len(totals)))
      max == MathMax(totals)
      spikeAmount == Sub(max, avg)
  IN IF Len(totals) >= 2 /\ spikeAbove(max, avg)
     THEN <<Pattern("spending_spike", <<category>>, <<max, avg>>, <<>>,
                    IF Gt(spikeAmount, Val(500)) THEN "high" ELSE "medium",
                    spikeAmount)>>
     ELSE <<>>

findSpendingSpikes(txns) ==
  LET expenses == expensesOf(txns)
      monthlyByCategory == 
        MapEntries(expenses,
                   [i \in 1..Len(expenses) |-> spikeMonthKey(expenses[i])])
      \* what the loops over monthlyByCategory push, as [category, total]
      pushed ==
        Flatten([k \in 1..Len(monthlyByCategory) |->
          LET inMonth == monthlyByCategory[k].value
              categoryMap == MapEntries(inMonth,
                               [i \in 1..Len(inMonth) |-> inMonth[i].category])
          IN Array([i \in 1..Len(categoryMap) |->
                [category |-> categoryMap[i].key,
                 total |-> Sum(Amounts(categoryMap[i].value))]])])
      categoryMonthlyTotals == 
        MapEntries(pushed, [i \in 1..Len(pushed) |-> pushed[i].category])
      totals(i) ==
        Array([j \in 1..Len(categoryMonthlyTotals[i].value) |->
                 categoryMonthlyTotals[i].value[j].total])
  IN Flatten([i \in 1..Len(categoryMonthlyTotals) |->
                spikeForCategory(totals(i), categoryMonthlyTotals[i].key)])

\* `${year}-${String(month + 1).padStart(2, "0")}`
trendMonthKey(t) ==
  String(getFullYear(t.date)) \o <<"-">> \o padStart2(String(getMonth(t.date) + 1))

\* the threshold included
trendFrom(percentChange) == Ge(MathAbs(percentChange), Val(15))

\* if (Math.abs(percentChange) > 15)
trendAbove(percentChange) == Gt(MathAbs(percentChange), Val(15))

\* the pattern pushed for the totals of the first and the last month
trendForMonths(firstMonth, lastMonth) ==
  LET change == Sub(lastMonth, firstMonth)
      percentChange == Mul(Div(change, firstMonth), Val(100))
      direction == IF Gt(change, Val(0)) THEN "increasing" ELSE "decreasing"
  IN IF trendAbove(percentChange)
     THEN <<Pattern("trend", <<direction>>, <<MathAbs(percentChange)>>, <<>>,
                    IF Gt(MathAbs(percentChange), Val(30)) THEN "high" ELSE "medium",
                    MathAbs(change))>>
     ELSE <<>>

\* monthlyTotals as [key, total] entries, sorted by key
sortedMonths(txns) ==
  LET expenses == expensesOf(txns)
      byMonth == 
        MapEntries(expenses,
                   [i \in 1..Len(expenses) |-> trendMonthKey(expenses[i])])
      monthlyTotals ==
        Array([i \in 1..Len(byMonth) |->
                 [key |-> byMonth[i].key, total |-> Sum(Amounts(byMonth[i].value))]])
  IN Sort(monthlyTotals,
          [a \in 1..Len(monthlyTotals) |-> [b \in 1..Len(monthlyTotals) |->
             Val(localeCompare(monthlyTotals[a].key, monthlyTotals[b].key))]])

\* the last month compared with the month before it
findTrendsOfLastTwo(txns) ==
  LET sorted == sortedMonths(txns)
  IN IF Len(sorted) < 2 THEN <<>>
     ELSE trendForMonths(sorted[Len(sorted) - 1].total, sorted[Len(sorted)].total)

findTrends(txns) ==
  LET sorted == sortedMonths(txns)
  IN IF Len(sorted) < 2 THEN <<>>
     ELSE trendForMonths(sorted[1].total, sorted[Len(sorted)].total)

\* the comparator with its operands exchanged
byImpactAscending(a, b) == Sub(a.impact, b.impact)

\* (a, b) => b.impact - a.impact
byImpact(a, b) == Sub(b.impact, a.impact)

\* patterns.sort((a, b) => b.impact - a.impact)
sortByImpact(all) ==
  Sort(all, [a \in 1..Len(all) |-> [b \in 1..Len(all) |->
               byImpact(all[a], all[b])]])

\* the value detectPatterns returns for txns
detectPatterns(txns) ==
  LET recurring == findRecurringCharges(txns)
  IN sortByImpact(recurring
                    \o findAnomalies(txns, recurring)
                    \o findSpendingSpikes(txns)
                    \o findTrends(txns))

----------------------------------------------------------------------------
(* TransactionCategorizer *)

\* desc.includes(word)
includes(desc, word) ==
  \E k \in 0..(Len(desc) - Len(word)) : SubSeq(desc, k + 1, k + Len(word)) = word

\* the words of ruleBasedCategorization, rule by rule
FoodWords ==
  {<<"r", "e", "s", "t", "a", "u", "r", "a", "n", "t">>,
   <<"c", "a", "f", "e">>,
   <<"s", "t", "a", "r", "b", "u", "c", "k", "s">>,
   <<"m", "c", "d", "o", "n", "a", "l", "d">>,
   <<"p", "i", "z", "z", "a">>,
   <<"c", "h", "i", "p", "o", "t", "l", "e">>,
   <<"s", "u", "b", "w", "a", "y">>,
   <<"g", "r", "o", "c", "e", "r", "y">>,
   <<"w", "h", "o", "l", "e", " ", "f", "o", "o", "d", "s">>,
   <<"t", "r", "a", "d", "e", "r", " ", "j", "o", "e">>}

TransportationWords ==
  {<<"u", "b", "e", "r">>,
   <<"l", "y", "f", "t">>,
   <<"g", "a", "s">>,
   <<"f", "u", "e", "l">>,
   <<"s", "h", "e", "l", "l">>,
   <<"c", "h", "e", "v", "r", "o", "n">>,
   <<"p", "a", "r", "k", "i", "n", "g">>,
   <<"t", "r", "a", "n", "s", "i", "t">>}

EntertainmentWords ==
  {<<"n", "e", "t", "f", "l", "i", "x">>,
   <<"s", "p", "o", "t", "i", "f", "y">>,
   <<"h", "u", "l", "u">>,
   <<"m", "o", "v", "i", "e">>,
   <<"t", "h", "e", "a", "t", "e", "r">>,
   <<"g", "a", "m", "e">>,
   <<"g", "y", "m">>}

BillsWords ==
  {<<"e", "l", "e", "c", "t", "r", "i", "c">>,
   <<"w", "a", "t", "e", "r">>,
   <<"i", "n", "t", "e", "r", "n", "e", "t">>,
   <<"p", "h", "o", "n", "e">>,
   <<"u", "t", "i", "l", "i", "t", "y">>,
   <<"b", "i", "l", "l">>}

HealthcareWords ==
  {<<"p", "h", "a", "r", "m", "a", "c", "y">>,
   <<"d", "o", "c", "t", "o", "r">>,
   <<"m", "e", "d", "i", "c", "a", "l">>,
   <<"h", "o", "s", "p", "i", "t", "a", "l">>,
   <<"c", "v", "s">>,
   <<"w", "a", "l", "g", "r", "e", "e", "n", "s">>}

HousingWords ==
  {<<"r", "e", "n", "t">>,
   <<"m", "o", "r", "t", "g", "a", "g", "e">>,
   <<"l", "a", "n", "d", "l", "o", "r", "d">>}

ShoppingWords ==
  {<<"a", "m", "a", "z", "o", "n">>,
   <<"t", "a", "r", "g", "e", "t">>,
   <<"w", "a", "l", "m", "a", "r", "t">>,
   <<"b", "e", "s", "t", " ", "b", "u", "y">>,
   <<"s", "t", "o", "r", "e">>}

\* the category of the first rule with a word the lower-cased description
\* includes; income is asked for after the words, "Other" is the default.
\* The field confidence is not modelled.
ruleBasedCategorization(transaction) ==
  LET desc == toLowerCase(transaction.description)
      has(ws) == \E w \in ws : includes(desc, w)
      category ==
        IF has(FoodWords) THEN "Food & Dining"
        ELSE IF has(TransportationWords) THEN "Transportation"
        ELSE IF has(EntertainmentWords) THEN "Entertainment"
        ELSE IF has(BillsWords) THEN "Bills & Utilities"
        ELSE IF has(HealthcareWords) THEN "Healthcare"
        ELSE IF has(HousingWords) THEN "Housing"
        ELSE IF has(ShoppingWords) THEN "Shopping"
        ELSE IF transaction.isIncome THEN "Income"
        ELSE "Other"
  IN [transaction EXCEPT !.category = category]

categorizeTransactions(txns) ==
  Array([i \in 1..Len(txns) |-> ruleBasedCategorization(txns[i])])

----------------------------------------------------------------------------
(* FinancialPlanner *)

\* the pattern detector planned from 20 transactions on
needsPatternDetectorFrom(totalCount) == totalCount >= 20

\* if (data.totalCount > 20)
needsPatternDetector(totalCount) == totalCount > 20

\* the tools of the steps pushed by createSmartPlan; action, reason, rationale
\* and estimatedDuration are texts and a number that nothing reads but the
\* display
createSmartPlan(totalCount) ==
  <<"categorizer", "calculator">>
    \o (IF needsPatternDetector(totalCount) THEN <<"patternDetector">> ELSE <<>>)
    \o <<"insightGenerator">>

----------------------------------------------------------------------------
(* Inputs *)

MaxLen == 2

Food == "Food & Dining"
Shopping == "Shopping"
Housing == "Housing"
IncomeCat == "Income"

Day(n) == n * DayLength

Txn(date, desc, amount, cat, inc) ==
  [date |-> date, description |-> desc, amount |-> amount,
   category |-> cat, isIncome |-> inc]

RECURSIVE SeqsUpTo(_, _)
\* the sequences over S of length at most n
SeqsUpTo(S, n) ==
  IF n = 0 THEN {<<>>}
  ELSE LET shorter == SeqsUpTo(S, n - 1)
       IN shorter \cup {Append(s, x) : s \in {q \in shorter : Len(q) = n - 1}, x \in S}

\* transactions that exercise the metrics: two categories, amounts 0 and 10,
\* dates half a day, 15 days and 45 days apart, income and expenses
MetricTxns ==
  {Txn(dt, <<"x">>, Val(a), c, FALSE) :
     dt \in {0, DayLength \div 2, Day(15), Day(45)},
     a \in {0, 10}, c \in {Food, Shopping}}
  \cup {Txn(0, <<"p", "a", "y">>, Val(50), IncomeCat, TRUE)}

Gym == <<"G", "y", "m">>
GymTwo == <<"g", "y", "m", " ", "#", "2">>
Rent == <<"R", "e", "n", "t">>
Coffee == <<"C", "o", "f", "f", "e", "e">>
Netflix == <<"N", "e", "t", "f", "l", "i", "x">>

\* transactions that exercise the detectors: amounts 0, 90 and 110, dates
\* 24, 25, 35, 36 and 60 days apart, in three months, and a second spelling
\* of the merchant on day 25
PatternTxns ==
  {Txn(Day(d), Gym, Val(a), Shopping, FALSE) :
     d \in {0, 25, 36, 60}, a \in {0, 90, 110}}
  \cup {Txn(Day(25), GymTwo, Val(a), Shopping, FALSE) : a \in {90, 110}}

\* twelve "Netflix" charges: lo of them at 13.50, hi at 16.50, the others at
\* 15.00, the gaps between consecutive dates alternating between g1 and g2 days
NetflixAmount(i, lo, hi) ==
  IF i <= lo THEN Num(27, 2) ELSE IF i <= lo + hi THEN Num(33, 2) ELSE Val(15)

NetflixSeries(lo, hi, g1, g2) ==
  [i \in 1..12 |->
     Txn(Day(((i - 1) \div 2) * (g1 + g2) + ((i - 1) % 2) * g1),
         Netflix, NetflixAmount(i, lo, hi), "Entertainment", FALSE)]

NetflixInputs ==
  {NetflixSeries(lo, hi, g1, g2) :
     lo \in 0..12, hi \in 0..12, g1 \in {28, 30, 32}, g2 \in {28, 30, 32}}

\* many small daily purchases, with or without two rent payments (a month or
\* a week apart), and with a larger purchase, a salary or neither
MaxFill == 20

Fillers(n) == [i \in 1..n |-> Txn(Day(i - 1), Coffee, Val(1), Food, FALSE)]

RentPair(gap) ==
  <<Txn(Day(0), Rent, Val(200), Housing, FALSE),
    Txn(Day(gap), Rent, Val(200), Housing, FALSE)>>

AnomalyInputs ==
  {Fillers(n) \o r \o t :
     n \in 0..MaxFill,
     r \in {<<>>, RentPair(30), RentPair(7)},
     t \in {<<>>,
             <<Txn(Day(3), <<"T", "V">>, Val(150), Shopping, FALSE)>>,
             <<Txn(Day(5), <<"S", "a", "l", "a", "r", "y">>, Val(500), IncomeCat, TRUE)>>}}

\* nine purchases of 2 and one of 100, after them or before them
Twos == [i \in 1..9 |-> Txn(Day(i - 1), Coffee, Val(2), Food, FALSE)]

TieInputs ==
  LET tv == <<Txn(Day(3), <<"T", "V">>, Val(100), Shopping, FALSE)>>
  IN {Twos \o tv, tv \o Twos}

\* ten small purchases, two salary deposits 60 days apart and, between them,
\* nothing or a purchase described like the salary, of its amount or of twice
\* its amount
Salary == <<"S", "a", "l", "a", "r", "y">>
SalaryTwo == <<"S", "A", "L", "A", "R", "Y", " ", "#", "2">>

SalaryInputs ==
  {Fillers(10)
     \o <<Txn(Day(0), Salary, Val(500), IncomeCat, TRUE)>>
     \o x
     \o <<Txn(Day(60), Salary, Val(500), IncomeCat, TRUE)>> :
   x \in {<<>>,
          <<Txn(Day(30), SalaryTwo, Val(500), Shopping, FALSE)>>,
          <<Txn(Day(30), SalaryTwo, Val(1000), Shopping, FALSE)>>,
          <<Txn(Day(30), <<"T", "V">>, Val(500), Shopping, FALSE)>>}}

\* ten small purchases and one of 1000 or of 1001
LargeInputs ==
  {Fillers(10) \o <<Txn(Day(3), <<"T", "V">>, Val(a), Shopping, FALSE)>> :
     a \in {1000, 1001}}

Groceries == <<"G", "r", "o", "c", "e", "r", "i", "e", "s">>

\* at most one Food purchase on the first day of each of the first four
\* months (the amounts as, none where as[i] < 0), with or without one more
\* purchase: in another category, in the first month again, or a year later
MonthStart == <<Day(0), Day(31), Day(59), Day(90)>>

MonthlySeries(as, more) ==
  LET months == SetToSeq({i \in 1..Len(as) : as[i] >= 0})
  IN [i \in 1..Len(months) |->
        Txn(MonthStart[months[i]], Groceries, Val(as[months[i]]), Food, FALSE)]
     \o more

MonthlyInputs ==
  {MonthlySeries(<<a1, a2, a3, a4>>, more) :
     a1 \in {-1, 100, 1200}, a2 \in {-1, 100, 400}, a3 \in {-1, 100},
     a4 \in {-1, 0, 400},
     more \in {<<>>,
                <<Txn(Day(40), Groceries, Val(400), Shopping, FALSE)>>,
                <<Txn(Day(20), Groceries, Val(300), Food, FALSE)>>,
                <<Txn(Day(365), Groceries, Val(400), Food, FALSE)>>}}

\* 1000 spent in January and an amount in March, with or without a purchase
\* in February, in chronological or in reverse order
TrendSeries(last, mid, reversed) ==
  LET january == <<Txn(Day(0), Groceries, Val(1000), Food, FALSE)>>
      march == <<Txn(Day(59), Groceries, Val(last), Food, FALSE)>>
  IN IF reversed THEN march \o mid \o january ELSE january \o mid \o march

TrendInputs ==
  {TrendSeries(last, mid, reversed) :
     last \in {690, 700, 850, 1050, 1140, 1150, 1151, 1300, 1301},
     mid \in {<<>>,
               <<Txn(Day(31), Groceries, Val(10), Food, FALSE)>>,
               <<Txn(Day(31), Groceries, Val(5000), Food, FALSE)>>},
     reversed \in BOOLEAN}

\* descriptions with digits, punctuation, capitals, runs of blanks, a tab,
\* more than three words, an accented letter, and no letter at all
Starbucks1234 ==
  <<"S", "t", "a", "r", "b", "u", "c", "k", "s", " ", "#", "1", "2", "3",
    "4">>
Starbucks5678 ==
  <<"S", "t", "a", "r", "b", "u", "c", "k", "s", " ", "#", "5", "6", "7",
    "8">>
AmazonOrder ==
  <<" ", " ", "A", "M", "A", "Z", "O", "N", " ", " ", " ", "M", "k", "t",
    "p", " ", "U", "S", "*", "2", "K", "4", " ", "o", "r", "d", "e", "r",
    " ", "7", " ">>
AmazonTabbed ==
  <<"A", "m", "a", "z", "o", "n", "\t", "M", "K", "T", "P", " ", "u", "s",
    "k">>
CafeNine ==
  <<"C", "a", "f", "é", " ", "9">>
Caf ==
  <<"c", "a", "f">>
NumberOnly ==
  <<"#", "4", "2">>

DescriptionSamples ==
  {Starbucks1234, Starbucks5678, AmazonOrder, AmazonTabbed, CafeNine, Caf,
   NumberOnly}

\* two charges of 20 a month apart, under two of the descriptions
DescriptionPair(d1, d2) ==
  <<Txn(Day(0), d1, Val(20), Shopping, FALSE),
    Txn(Day(30), d2, Val(20), Shopping, FALSE)>>

DescriptionInputs ==
  {DescriptionPair(d1, d2) : d1 \in DescriptionSamples,
                             d2 \in DescriptionSamples}

\* three like charges, the first and the last 60 days apart
CadenceSeries(d) ==
  <<Txn(Day(0), Gym, Val(90), Shopping, FALSE),
    Txn(Day(d), Gym, Val(90), Shopping, FALSE),
    Txn(Day(60), Gym, Val(90), Shopping, FALSE)>>

CadenceInputs == {CadenceSeries(d) : d \in {7, 30, 53}}

Inputs ==
  SeqsUpTo(MetricTxns, MaxLen) \cup SeqsUpTo(PatternTxns, MaxLen)
    \cup NetflixInputs \cup AnomalyInputs \cup LargeInputs
    \cup MonthlyInputs \cup TrendInputs \cup DescriptionInputs
    \cup CadenceInputs \cup TieInputs \cup SalaryInputs

----------------------------------------------------------------------------
(* The calls *)

Init ==
  /\ transactions \in Inputs
  /\ metrics = <<>>
  /\ patterns = <<>>
  /\ returned = {}
  /\ pc = "findRecurringCharges"
  /\ found = <<>>
  /\ recurringOutput = <<>>
  /\ plan = <<>>
  /\ stepIndex = 0
  /\ executed = <<>>
  /\ insights = <<>>
  /\ report = <<>>

\* the call, had it sorted its argument by date in place
CalculateMetricsSortingArgument ==
  /\ pc \in {"findRecurringCharges", "done"}
  /\ metrics' = <<calculateMetrics(transactions)>>
  /\ returned' = returned \cup {"calculateMetrics"}
  /\ transactions' =
       Sort(transactions,
            [a \in 1..Len(transactions) |-> [b \in 1..Len(transactions) |->
               Val(transactions[a].date - transactions[b].date)]])
  /\ UNCHANGED <<patterns, pc, found, recurringOutput>>
  /\ UNCHANGED agentVars

\* metrics = FinancialCalculator.calculateMetrics(categorizedTransactions).
\* The call is synchronous: it runs before detectPatterns is entered or after
\* it has returned.  filter and map return new arrays, and the one sort is
\* applied to the local breakdown: the argument is not written.
CalculateMetrics ==
  /\ pc \in {"findRecurringCharges", "done"}
  /\ metrics' = <<calculateMetrics(transactions)>>
  /\ returned' = returned \cup {"calculateMetrics"}
  /\ UNCHANGED <<transactions, patterns, pc, found, recurringOutput>>
  /\ UNCHANGED agentVars

\* PatternDetector.detectPatterns(categorizedTransactions), statement by
\* statement.  The detectors push the elements of the argument onto arrays of
\* their own and sort the array that map returns: the argument is not written.

\* the statement, had the dates been sorted on the argument itself
FindRecurringChargesSortingArgument ==
  /\ pc = "findRecurringCharges"
  /\ recurringOutput' = findRecurringCharges(transactions)
  /\ found' = found \o recurringOutput'
  /\ pc' = "findAnomalies"
  /\ transactions' =
       Sort(transactions,
            [a \in 1..Len(transactions) |-> [b \in 1..Len(transactions) |->
               Val(transactions[a].date - transactions[b].date)]])
  /\ UNCHANGED <<metrics, patterns, returned>>
  /\ UNCHANGED agentVars

\* const recurringPatterns = this.findRecurringCharges(transactions);
\* patterns.push(...recurringPatterns);
FindRecurringCharges ==
  /\ pc = "findRecurringCharges"
  /\ recurringOutput' = findRecurringCharges(transactions)
  /\ found' = found \o recurringOutput'
  /\ pc' = "findAnomalies"
  /\ UNCHANGED <<transactions, metrics, patterns, returned>>
  /\ UNCHANGED agentVars

\* patterns.push(...this.findAnomalies(transactions, recurringPatterns));
FindAnomalies ==
  /\ pc = "findAnomalies"
  /\ found' = found \o findAnomalies(transactions, recurringOutput)
  /\ pc' = "findSpendingSpikes"
  /\ UNCHANGED <<transactions, metrics, patterns, returned, recurringOutput>>
  /\ UNCHANGED agentVars

\* patterns.push(...this.findSpendingSpikes(transactions));
FindSpendingSpikes ==
  /\ pc = "findSpendingSpikes"
  /\ found' = found \o findSpendingSpikes(transactions)
  /\ pc' = "findTrends"
  /\ UNCHANGED <<transactions, metrics, patterns, returned, recurringOutput>>
  /\ UNCHANGED agentVars

\* patterns.push(...this.findTrends(transactions));
FindTrends ==
  /\ pc = "findTrends"
  /\ found' = found \o findTrends(transactions)
  /\ pc' = "sort"
  /\ UNCHANGED <<transactions, metrics, patterns, returned, recurringOutput>>
  /\ UNCHANGED agentVars

\* return patterns.sort((a, b) => b.impact - a.impact); the caller's
\* patterns = PatternDetector.detectPatterns(categorizedTransactions)
SortAndReturn ==
  /\ pc = "sort"
  /\ found' = sortByImpact(found)
  /\ patterns' = found'
  /\ returned' = returned \cup {"detectPatterns"}
  /\ pc' = "done"
  /\ UNCHANGED <<transactions, metrics, recurringOutput>>
  /\ UNCHANGED agentVars

Next ==
  \/ CalculateMetrics
  \/ FindRecurringCharges
  \/ FindAnomalies
  \/ FindSpendingSpikes
  \/ FindTrends
  \/ SortAndReturn

Spec == Init /\ [][Next]_vars

----------------------------------------------------------------------------
(* The agent *)

\* parsedData.transactions.map((t) => ({...t, category: "Other", confidence: 0}))
uncategorized(txns) ==
  Array([i \in 1..Len(txns) |-> [txns[i] EXCEPT !.category = "Other"]])

\* the transactions parseCSV returns: it throws if there is none
ParsedInputs ==
  (AnomalyInputs \cup LargeInputs \cup TieInputs \cup SalaryInputs) \ {<<>>}

\* analyzeFinances after parseCSV has returned.  categorizedTransactions is
\* the variable transactions; parsedData.totalCount is its length, and the
\* categorizer, which is handed parsedData.transactions, reads description
\* and isIncome only, which the two arrays share.
AgentInit ==
  /\ transactions \in {uncategorized(txns) : txns \in ParsedInputs}
  /\ metrics = <<>>
  /\ patterns = <<>>
  /\ insights = <<>>
  /\ report = <<>>
  /\ plan = <<>>
  /\ stepIndex = 0
  /\ executed = <<>>
  /\ returned = {}
  /\ pc = "createPlan"
  /\ found = <<>>
  /\ recurringOutput = <<>>

\* const plan = await this.planner.createPlan(parsedData);
CreatePlan ==
  /\ pc = "createPlan"
  /\ plan' = createSmartPlan(Len(transactions))
  /\ stepIndex' = 0
  /\ pc' = "executePlan"
  /\ UNCHANGED <<transactions, metrics, patterns, returned, found,
                 recurringOutput, executed, insights, report>>

\* for (let i = 0; i < plan.steps.length; i++) with step.tool = tool: the
\* step is logged and i is incremented
AtStep(tool) ==
  /\ pc = "executePlan"
  /\ stepIndex < Len(plan)
  /\ plan[stepIndex + 1] = tool
  /\ executed' = Append(executed, tool)
  /\ stepIndex' = stepIndex + 1

\* case "categorizer"
RunCategorizer ==
  /\ AtStep("categorizer")
  /\ transactions' = categorizeTransactions(transactions)
  /\ UNCHANGED <<metrics, patterns, returned, pc, found, recurringOutput,
                 plan, insights, report>>

\* case "calculator"
RunCalculator ==
  /\ AtStep("calculator")
  /\ metrics' = <<calculateMetrics(transactions)>>
  /\ returned' = returned \cup {"calculateMetrics"}
  /\ UNCHANGED <<transactions, patterns, pc, found, recurringOutput,
                 plan, insights, report>>

\* case "patternDetector"
RunPatternDetector ==
  /\ AtStep("patternDetector")
  /\ patterns' = detectPatterns(transactions)
  /\ returned' = returned \cup {"detectPatterns"}
  /\ UNCHANGED <<transactions, metrics, pc, found, recurringOutput,
                 plan, insights, report>>

\* case "insightGenerator": buildInsightPrompt reads metrics.categoryBreakdown
\* before the try block, so that metrics = null throws out of analyzeFinances.
\* The insights are the answer of a language model; the arguments of the call
\* stand for them.
RunInsightGenerator ==
  /\ AtStep("insightGenerator")
  /\ IF metrics = <<>>
     THEN pc' = "thrown" /\ insights' = insights
     ELSE pc' = pc /\ insights' = <<[metrics |-> metrics, patterns |-> patterns]>>
  /\ UNCHANGED <<transactions, metrics, patterns, returned, found,
                 recurringOutput, plan, report>>

\* the loop is left; summary: this.generateSummary(metrics, patterns,
\* insights) reads metrics.totalSpending and throws if metrics is null
GenerateReport ==
  /\ pc = "executePlan"
  /\ stepIndex = Len(plan)
  /\ IF metrics = <<>>
     THEN pc' = "thrown" /\ report' = report
     ELSE /\ pc' = "returned"
          /\ report' = <<[metrics |-> metrics, patterns |-> patterns,
                          insights |-> insights]>>
  /\ UNCHANGED <<transactions, metrics, patterns, returned, found,
                 recurringOutput, plan, stepIndex, executed, insights>>

AgentNext ==
  \/ CreatePlan
  \/ RunCategorizer
  \/ RunCalculator
  \/ RunPatternDetector
  \/ RunInsightGenerator
  \/ GenerateReport

AgentSpec == AgentInit /\ [][AgentNext]_vars

----------------------------------------------------------------------------
(* Properties of detectPatterns *)

OfType(ps, type) == SelectSeq(ps, LAMBDA q : q.type = type)

Detected == "detectPatterns" \in returned
Calculated == "calculateMetrics" \in returned

\* C1: the list returned by detectPatterns is sorted descending by impact:
\* each pattern's impact is at least the impact of the pattern after it.
C1_SortedByImpact ==
  Detected =>
    \A i \in 1..(Len(patterns) - 1) :
      Ge(patterns[i].impact, patterns[i + 1].impact)

\* C1 witness: a returned list that starts with the trend pattern, emitted
\* last, because its impact is larger than the impact of the pattern after it.
C1_Witness ==
  /\ Detected
  /\ Len(patterns) >= 2
  /\ patterns[1].type = "trend"
  /\ Gt(patterns[1].impact, patterns[2].impact)

\* C2: in one pass no anomaly pattern is attached to a transaction of an
\* emitted recurring_charge pattern, nor to a transaction with the normalized
\* description of a member of one, whatever its amount.
C2_RecurringNeverAnomaly ==
  Detected =>
    \A r \in 1..Len(patterns), a \in 1..Len(patterns) :
      (patterns[r].type = "recurring_charge" /\ patterns[a].type = "anomaly") =>
        \A j \in 1..Len(patterns[r].transactions) :
          /\ patterns[a].transactions[1] # patterns[r].transactions[j]
          /\ descKey(patterns[a].transactions[1])
               # descKey(patterns[r].transactions[j])

\* C2 witness: a recurring_charge pattern was returned, and the amount of one
\* of its transactions, an expense, exceeds mean + 3 * stddev of all expenses.
C2_Witness ==
  /\ Detected
  /\ \E r \in 1..Len(patterns) :
       /\ patterns[r].type = "recurring_charge"
       /\ \E j \in 1..Len(patterns[r].transactions) :
            LET t == patterns[r].transactions[j]
                amounts == Amounts(expensesOf(transactions))
            IN /\ ~t.isIncome
               /\ aboveThreeSigma(t.amount, mean(amounts),
                                   variance(amounts, mean(amounts)),
                                   thresholdRoundsBelow(amounts))

----------------------------------------------------------------------------
(* Properties of calculateMetrics *)

Metrics == metrics[1]
Breakdown == Metrics.categoryBreakdown

\* the sum of the amounts of the expenses whose category is in cats
SpentOn(cats) ==
  Sum(Amounts(SelectSeq(transactions,
                        LAMBDA t : ~t.isIncome /\ t.category \in cats)))

AllCategories == {transactions[i].category : i \in 1..Len(transactions)}

\* C3: calculateMetrics on an empty sequence fails with EmptyDatasetError and
\* returns no FinancialMetrics value.
C3_EmptyInputFails ==
  transactions = <<>> => (~Calculated /\ metrics = <<>>)

\* C4: for a non-empty input the totals of the breakdown entries add up to
\* totalSpending, totalSpending is the sum of the amounts of the expenses, and
\* each entry's total is the sum of the expenses of its category alone.
C4_BreakdownSumsToSpending ==
  (Calculated /\ transactions # <<>>) =>
    /\ Sum(Array([i \in 1..Len(Breakdown) |-> Breakdown[i].total]))
         = Metrics.totalSpending
    /\ Metrics.totalSpending = SpentOn(AllCategories)
    /\ \A i \in 1..Len(Breakdown) :
         Breakdown[i].total = SpentOn({Breakdown[i].category})

\* C4 witness: metrics returned for an input with income, with positive
\* spending and with expenses in at least two categories.
C4_Witness ==
  /\ Calculated
  /\ \E i \in 1..Len(transactions) : transactions[i].isIncome
  /\ Len(Breakdown) >= 2
  /\ Gt(Metrics.totalSpending, Val(0))

\* the category names in ascending order
CategoryNames ==
  <<"Bills & Utilities", "Entertainment", "Food & Dining", "Healthcare",
    "Housing", "Income", "Other", "Shopping", "Transportation">>
NameRank(c) == CHOOSE i \in 1..Len(CategoryNames) : CategoryNames[i] = c

\* C5: the breakdown is ordered descending by total, and of two categories
\* with equal totals the one with the smaller name comes first.
C5_BreakdownOrder ==
  Calculated =>
    \A i \in 1..(Len(Breakdown) - 1) :
      \/ Gt(Breakdown[i].total, Breakdown[i + 1].total)
      \/ /\ Breakdown[i].total = Breakdown[i + 1].total
         /\ NameRank(Breakdown[i].category) < NameRank(Breakdown[i + 1].category)

\* the whole days between the earliest and the latest date, at least 1
SpanSeconds ==
  LET ds == {transactions[i].date : i \in 1..Len(transactions)}
  IN (CHOOSE x \in ds : \A y \in ds : x >= y)
       - (CHOOSE x \in ds : \A y \in ds : x <= y)
DateSpanDays ==
  IF SpanSeconds \div DayLength < 1 THEN 1 ELSE SpanSeconds \div DayLength

\* C6: averageDaily = totalSpending / D and averageMonthly = totalSpending /
\* max(1, D / 30) with D the whole days of the date span, at least 1; so a span
\* under 30 days gives averageMonthly = totalSpending, and averageDaily never
\* exceeds totalSpending.
C6_Averages ==
  (Calculated /\ transactions # <<>>) =>
    /\ Metrics.averageDaily = Div(Metrics.totalSpending, Val(DateSpanDays))
    /\ Metrics.averageMonthly =
         Div(Metrics.totalSpending,
             IF DateSpanDays < 30 THEN Val(1) ELSE Num(DateSpanDays, 30))
    /\ SpanSeconds < 30 * DayLength =>
         Metrics.averageMonthly = Metrics.totalSpending
    /\ Le(Metrics.averageDaily, Metrics.totalSpending)

\* C7: every percentage is a finite number: 0 when totalSpending is 0, and
\* total / totalSpending * 100 otherwise.
C7_Percentages ==
  Calculated =>
    \A i \in 1..Len(Breakdown) :
      /\ IsFinite(Breakdown[i].percentage)
      /\ Breakdown[i].percentage =
           IF Metrics.totalSpending = Val(0) THEN Val(0)
           ELSE Mul(Div(Breakdown[i].total, Metrics.totalSpending), Val(100))

----------------------------------------------------------------------------
(* Properties of the detectors *)

\* C8: no detector propagates a not-a-number or infinite ratio: the numbers
\* of every returned pattern (a trend's percentage among them) are finite.
C8_FiniteRatios ==
  Detected =>
    \A i \in 1..Len(patterns) :
      /\ IsFinite(patterns[i].impact)
      /\ \A j \in 1..Len(patterns[i].description.numbers) :
           IsFinite(patterns[i].description.numbers[j])

GroupKeys == {descKey(transactions[i]) : i \in 1..Len(transactions)}
GroupOf(k) == SelectSeq(transactions, LAMBDA t : descKey(t) = k)
GroupMean(g) == Div(Sum(Amounts(g)), Val(Len(g)))

\* the average gap between consecutive dates, in days: the gaps add up to the
\* distance between the earliest and the latest date
AverageGapDays(g) ==
  LET ds == {g[i].date : i \in 1..Len(g)}
      span == (CHOOSE x \in ds : \A y \in ds : x >= y)
               - (CHOOSE x \in ds : \A y \in ds : x <= y)
  IN Num(span, (Len(g) - 1) * DayLength)

MonthlyGaps(g) ==
  Ge(AverageGapDays(g), Val(25)) /\ Le(AverageGapDays(g), Val(35))

\* every amount within 10% of the mean, 10% itself included
Within10(g) ==
  \A i \in 1..Len(g) :
    Le(MathAbs(Sub(g[i].amount, GroupMean(g))), Div(GroupMean(g), Val(10)))

\* every amount less than 10% of the mean away from the mean
StrictlyWithin10(g) ==
  \A i \in 1..Len(g) :
    Lt(MathAbs(Sub(g[i].amount, GroupMean(g))), Div(GroupMean(g), Val(10)))

\* the recurring_charge patterns returned are exactly one per group that
\* passes the test, each with the severity and the impact of its group
Passes(g, strictly) ==
  /\ Len(g) >= 2
  /\ IF strictly THEN StrictlyWithin10(g) ELSE Within10(g)
  /\ MonthlyGaps(g)

RecurringExactly(strictly) ==
  LET rec == OfType(patterns, "recurring_charge")
  IN /\ \A k \in GroupKeys :
          Cardinality({i \in 1..Len(rec) : rec[i].transactions = GroupOf(k)})
            = IF Passes(GroupOf(k), strictly) THEN 1 ELSE 0
     /\ \A i \in 1..Len(rec) :
          /\ \E k \in GroupKeys : rec[i].transactions = GroupOf(k)
          /\ rec[i].severity =
               IF Gt(GroupMean(rec[i].transactions), Val(50))
               THEN "medium" ELSE "low"
          /\ rec[i].impact = Mul(GroupMean(rec[i].transactions), Val(12))

\* C9 as stated: a group yields exactly one recurring_charge pattern if and
\* only if it has at least 2 members, every amount lies within 10% of the
\* group mean (10% included) and the average gap lies in [25, 35] days.
C9_RecurringWithin10 ==
  Detected =>
    RecurringExactly(FALSE)

\* C9 amended: the same with every amount strictly less than 10% of the group
\* mean away from the mean.
C9_RecurringStrictlyWithin10 ==
  Detected =>
    RecurringExactly(TRUE)

\* C9 witness: one recurring_charge pattern returned for an input with a group
\* that passes and a group of at least 2 members that does not.
C9_Witness ==
  /\ Detected
  /\ Len(OfType(patterns, "recurring_charge")) = 1
  /\ \E k \in GroupKeys :
       /\ Len(GroupOf(k)) >= 2
       /\ ~Passes(GroupOf(k), TRUE)

\* twelve "Netflix" transactions, consecutive dates 28 to 32 days apart
TwelveNetflix ==
  /\ Len(transactions) = 12
  /\ \A i \in 1..12 : transactions[i].description = Netflix
  /\ \A i \in 1..11 :
       /\ transactions[i + 1].date - transactions[i].date >= Day(28)
       /\ transactions[i + 1].date - transactions[i].date <= Day(32)

OneRecurringOfTwelveTimesMean ==
  LET rec == OfType(patterns, "recurring_charge")
  IN /\ Len(rec) = 1
     /\ rec[1].impact = Mul(GroupMean(transactions), Val(12))

\* C10 as stated: twelve Netflix charges of 13.50 to 16.50 each, 28 to 32
\* days apart, give exactly one recurring_charge pattern of impact 12 * mean.
C10_NetflixNoisy ==
  (Detected /\ TwelveNetflix
     /\ \A i \in 1..12 : /\ Ge(transactions[i].amount, Num(27, 2))
                           /\ Le(transactions[i].amount, Num(33, 2)))
    => OneRecurringOfTwelveTimesMean

\* C10 amended: twelve Netflix charges, each less than 10% of their mean away
\* from that mean, 28 to 32 days apart, give exactly one recurring_charge
\* pattern of impact 12 * mean.
C10_NetflixNearMean ==
  (Detected /\ TwelveNetflix /\ StrictlyWithin10(transactions))
    => OneRecurringOfTwelveTimesMean

\* C10 witness: such an input with amounts of 15.00 and of 16.50, and the
\* pattern returned for it.
C10_Witness ==
  /\ Detected /\ TwelveNetflix /\ StrictlyWithin10(transactions)
  /\ \A a \in {Val(15), Num(33, 2)} :
       \E i \in 1..12 : transactions[i].amount = a
  /\ Len(OfType(patterns, "recurring_charge")) = 1

----------------------------------------------------------------------------
(* Properties of the anomaly detector *)

Expenses == SelectSeq(transactions, LAMBDA t : ~t.isIncome)

\* amount > mean + 3 * stddev over the amounts of Expenses, from their sum
\* and the sum of their squares: variance = sumSq / n - (sum / n)^2; an amount
\* equal to the fraction mean + 3 * stddev exceeds the threshold the code
\* computed if that was rounded below
FarAboveMean(amount) ==
  LET n == Val(Len(Expenses))
      sum == Sum(Amounts(Expenses))
      sumSq == Sum(Array([i \in 1..Len(Expenses) |->
                 Mul(Expenses[i].amount, Expenses[i].amount)]))
      avg == Div(sum, n)
      var == Sub(Div(sumSq, n), Mul(avg, avg))
      dist == Sub(amount, avg)
  IN /\ Gt(dist, Val(0))
     /\ \/ Gt(Div(Mul(dist, dist), Val(9)), var)
        \/ /\ Div(Mul(dist, dist), Val(9)) = var
           /\ thresholdRoundsBelow(Amounts(Expenses))

\* the normalized descriptions of the members of the recurring patterns
ExclusionSet ==
  LET rec == OfType(patterns, "recurring_charge")
  IN {k \in GroupKeys :
        \E i \in 1..Len(rec) : \E j \in 1..Len(rec[i].transactions) :
          descKey(rec[i].transactions[j]) = k}

IsAnomalous(t) ==
  ~t.isIncome /\ descKey(t) \notin ExclusionSet /\ FarAboveMean(t.amount)

----------------------------------------------------------------------------
(* Properties of the spending spike detector *)

CalendarMonth(t) == <<getFullYear(t.date), getMonth(t.date)>>

\* the (year, month) buckets in which category c has an expense
MonthsOf(c) ==
  {CalendarMonth(Expenses[i]) :
     i \in {j \in 1..Len(Expenses) : Expenses[j].category = c}}

MonthTotal(c, m) ==
  Sum(Amounts(SelectSeq(Expenses,
                        LAMBDA t : t.category = c /\ CalendarMonth(t) = m)))

MaxMonthTotal(c) ==
  MonthTotal(c, CHOOSE m \in MonthsOf(c) :
                  \A o \in MonthsOf(c) : Ge(MonthTotal(c, m), MonthTotal(c, o)))

\* the totals of the buckets add up to the total of the category
MeanMonthTotal(c) == Div(SpentOn({c}), Val(Cardinality(MonthsOf(c))))

Spikes(c) ==
  /\ Cardinality(MonthsOf(c)) >= 2
  /\ Gt(MaxMonthTotal(c), Mul(Num(3, 2), MeanMonthTotal(c)))

\* C12: per category with expenses there is exactly one spending_spike
\* pattern if the category has at least 2 (year, month) buckets and the
\* largest bucket total exceeds 1.5 times their mean, and none otherwise; its
\* impact is max - mean and its severity high if max - mean > 500 else medium.
\* Monthly totals 100, 100, 100, 400 give one pattern: mean 175, impact 225,
\* severity medium.
C12_SpikesExactly ==
  Detected =>
    LET sp == OfType(patterns, "spending_spike")
    IN /\ \A c \in AllCategories :
            Cardinality({j \in 1..Len(sp) : sp[j].description.subject = <<c>>})
              = IF Spikes(c) THEN 1 ELSE 0
       /\ \A j \in 1..Len(sp) :
            LET c == sp[j].description.subject[1]
                spike == Sub(MaxMonthTotal(c), MeanMonthTotal(c))
            IN /\ c \in AllCategories
               /\ sp[j].impact = spike
               /\ sp[j].severity =
                    IF Gt(spike, Val(500)) THEN "high" ELSE "medium"
       /\ transactions = MonthlySeries(<<100, 100, 100, 400>>, <<>>) =>
            /\ Len(sp) = 1
            /\ sp[1].description.numbers = <<Val(400), Val(175)>>
            /\ sp[1].impact = Val(225)
            /\ sp[1].severity = "medium"

\* C12 witness: the pattern returned for the monthly totals 100, 100, 100,
\* 400.
C12_Witness ==
  /\ Detected
  /\ transactions = MonthlySeries(<<100, 100, 100, 400>>, <<>>)
  /\ Len(OfType(patterns, "spending_spike")) = 1

----------------------------------------------------------------------------
(* Properties of the trend detector *)

AllMonths == {CalendarMonth(Expenses[i]) : i \in 1..Len(Expenses)}

Earlier(m, o) == m[1] < o[1] \/ (m[1] = o[1] /\ m[2] <= o[2])

FirstMonth == CHOOSE m \in AllMonths : \A o \in AllMonths : Earlier(m, o)
LastMonth == CHOOSE m \in AllMonths : \A o \in AllMonths : Earlier(o, m)

SpentIn(m) ==
  Sum(Amounts(SelectSeq(Expenses, LAMBDA t : CalendarMonth(t) = m)))

\* |last - first| / first * 100 > percent, without the division; a first
\* total of 0 makes the quotient infinite, or not a number if last is 0 too
ChangesByMoreThan(percent, first, last) ==
  IF first = Val(0) THEN last # Val(0)
  ELSE Gt(Mul(MathAbs(Sub(last, first)), Val(100)), Mul(Val(percent), first))

\* the trend patterns expected for the totals of the first and last month
TrendExpected(tr, first, last) ==
  IF ChangesByMoreThan(15, first, last)
  THEN /\ Len(tr) = 1
       /\ tr[1].description.subject =
            <<IF Gt(last, first) THEN "increasing" ELSE "decreasing">>
       /\ tr[1].severity =
            IF ChangesByMoreThan(30, first, last) THEN "high" ELSE "medium"
       /\ tr[1].impact = MathAbs(Sub(last, first))
  ELSE tr = <<>>

\* C13: with expenses in fewer than 2 calendar months there is no trend
\* pattern; otherwise there is exactly one if the totals of the first and the
\* last month differ by more than 15% of the first, and none if not; it is
\* increasing if last > first else decreasing, of severity high above 30%
\* else medium, and of impact |last - first|.  1000 then 1300 gives one
\* increasing trend of impact 300; 1000 then 1050 or 1140 gives none.
C13_TrendExactly ==
  Detected =>
    LET tr == OfType(patterns, "trend")
    IN /\ IF Cardinality(AllMonths) < 2 THEN tr = <<>>
          ELSE TrendExpected(tr, SpentIn(FirstMonth), SpentIn(LastMonth))
       /\ transactions = TrendSeries(1300, <<>>, FALSE) =>
            /\ Len(tr) = 1
            /\ tr[1].description.subject = <<"increasing">>
            /\ tr[1].impact = Val(300)
       /\ transactions \in {TrendSeries(1050, <<>>, FALSE),
                             TrendSeries(1140, <<>>, FALSE)} => tr = <<>>

\* C13 witness: the increasing trend of impact 300 returned for 1000 then
\* 1300.
C13_Witness ==
  /\ Detected
  /\ transactions = TrendSeries(1300, <<>>, FALSE)
  /\ Len(OfType(patterns, "trend")) = 1
  /\ OfType(patterns, "trend")[1].impact = Val(300)

----------------------------------------------------------------------------
(* Properties of the order in detectPatterns *)

DetectorOrder == <<"recurring_charge", "anomaly", "spending_spike", "trend">>
DetectorRank(type) == CHOOSE r \in 1..4 : DetectorOrder[r] = type

StatementOrder ==
  <<"findRecurringCharges", "findAnomalies", "findSpendingSpikes",
    "findTrends", "sort", "done">>
StatementRank(p) == CHOOSE r \in 1..6 : StatementOrder[r] = p

\* what detectPatterns has pushed comes from the detectors already run, in
\* their order
PushedInOrder(ps, ranks) ==
  /\ \A i \in 1..Len(ps) : DetectorRank(ps[i].type) \in ranks
  /\ \A i \in 1..(Len(ps) - 1) :
       DetectorRank(ps[i].type) <= DetectorRank(ps[i + 1].type)

\* s is t rearranged, and elements of equal impact are in the order of t
StablyRearranged(s, t) ==
  /\ Len(s) = Len(t)
  /\ \A i \in 1..Len(t) :
       SelectSeq(s, LAMBDA q : q.impact = t[i].impact)
         = SelectSeq(t, LAMBDA q : q.impact = t[i].impact)

\* one step of detectPatterns: the statements run one after the other; the
\* anomaly detector starts with the recurring detector's finished output as
\* its argument and with nothing else pushed; each detector pushes only its
\* own patterns, after those of the detectors before it; and the final sort
\* keeps patterns of equal impact in the order they were pushed in
OrderedStep ==
  /\ pc' # pc => StatementRank(pc') = StatementRank(pc) + 1
  /\ pc = "findAnomalies" =>
       /\ recurringOutput = found
       /\ OfType(found, "recurring_charge") = found
       /\ recurringOutput' = recurringOutput
  /\ pc \in {"findRecurringCharges", "findAnomalies", "findSpendingSpikes",
              "findTrends"} =>
       /\ SubSeq(found', 1, Len(found)) = found
       /\ PushedInOrder(found', 1..StatementRank(pc))
       /\ \A i \in (Len(found) + 1)..Len(found') :
            DetectorRank(found'[i].type) = StatementRank(pc)
  /\ pc = "sort" => (pc' = "done" => /\ patterns' = found'
                                      /\ Len(found') = Len(found))

\* C14: detectPatterns runs recurring, anomaly, spike, trend in this order,
\* the anomaly detector after the recurring detector has finished and with
\* its output as argument; in the returned list two patterns of equal impact
\* are in the order they were emitted in.
C14_DetectorOrder ==
  [][/\ OrderedStep
     /\ (pc = "sort" /\ pc' = "done") =>
          StablyRearranged(patterns', found)]_vars

\* C14 witness: a returned list in which a spending spike and a trend have
\* the same impact.
C14_Witness ==
  /\ Detected
  /\ \E i, j \in 1..Len(patterns) :
       /\ patterns[i].impact = patterns[j].impact
       /\ patterns[i].type = "spending_spike"
       /\ patterns[j].type = "trend"

\* C15: a spending_spike or trend pattern has no transactions attached, an
\* anomaly pattern exactly one, an expense of the input, and a
\* recurring_charge pattern its whole group: the input transactions with the
\* group's normalized description, all of them and no other, at least 2.
C15_AttachedTransactions ==
  Detected =>
    \A i \in 1..Len(patterns) :
      LET attached == patterns[i].transactions
      IN /\ patterns[i].type \in {"spending_spike", "trend"} =>
              attached = <<>>
         /\ patterns[i].type = "anomaly" =>
              /\ Len(attached) = 1
              /\ ~attached[1].isIncome
              /\ \E k \in 1..Len(transactions) : transactions[k] = attached[1]
         /\ patterns[i].type = "recurring_charge" =>
              /\ Len(attached) >= 2
              /\ attached = GroupOf(descKey(attached[1]))

\* C15 witness: a recurring charge with its group of twelve returned together
\* with a spending spike and a trend.
C15_Witness ==
  /\ Detected
  /\ \E i \in 1..Len(patterns) :
       /\ patterns[i].type = "recurring_charge"
       /\ Len(patterns[i].transactions) = 12
  /\ OfType(patterns, "spending_spike") # <<>>
  /\ OfType(patterns, "trend") # <<>>

----------------------------------------------------------------------------
(* Properties of the description normalizer *)

LowerOf(c) ==
  IF \E j \in 1..26 : UpperCase[j] = c
  THEN LowerCase[CHOOSE j \in 1..26 : UpperCase[j] = c]
  ELSE c

RECURSIVE Words(_, _, _, _)
\* The words of s from position i on, read character by character: a letter
\* (lower-cased) extends the word cur, whitespace ends it, and any other
\* character is skipped.
Words(s, i, cur, letters) ==
  IF i > Len(s) THEN (IF cur = <<>> THEN <<>> ELSE <<cur>>)
  ELSE IF LowerOf(s[i]) \in letters
       THEN Words(s, i + 1, Append(cur, LowerOf(s[i])), letters)
  ELSE IF s[i] \in {" ", "\t", "\n"}
       THEN (IF cur = <<>> THEN <<>> ELSE <<cur>>)
              \o Words(s, i + 1, <<>>, letters)
  ELSE Words(s, i + 1, cur, letters)

\* the first three words, single spaces between them
KeyOf(desc, letters) ==
  LET w == Words(desc, 1, <<>>, letters)
  IN IF Len(w) = 0 THEN <<>>
     ELSE IF Len(w) = 1 THEN w[1]
     ELSE IF Len(w) = 2 THEN w[1] \o <<" ">> \o w[2]
     ELSE w[1] \o <<" ">> \o w[2] \o <<" ">> \o w[3]

AsciiLetters == Range(LowerCase)
Letters == AsciiLetters \cup {"é"}

\* The keys the detector works with are KeyOf: a recurring pattern names the
\* key of each of its members, has at most three words, and two like charges
\* a month apart form one group exactly if their keys agree; the two
\* Starbucks descriptions share the key "starbucks".
NormalizedAs(letters) ==
  LET rec == OfType(patterns, "recurring_charge")
  IN /\ \A i \in 1..Len(rec) :
          /\ \A j \in 1..Len(rec[i].transactions) :
               rec[i].description.subject
                 = KeyOf(rec[i].transactions[j].description, letters)
          /\ Cardinality({j \in 1..Len(rec[i].description.subject) :
                            rec[i].description.subject[j] = " "}) <= 2
     /\ transactions \in DescriptionInputs =>
          (Len(rec) = 1 <=> KeyOf(transactions[1].description, letters)
                              = KeyOf(transactions[2].description, letters))
     /\ transactions = DescriptionPair(Starbucks1234, Starbucks5678) =>
          /\ Len(rec) = 1
          /\ rec[1].description.subject
               = <<"s", "t", "a", "r", "b", "u", "c", "k", "s">>

\* C16 as stated: the key is the description lower-cased, without digits,
\* without any character that is not a letter or whitespace, trimmed, split
\* on whitespace, cut to three words and joined by single spaces.
C16_NormalizerKeepsLetters == Detected => NormalizedAs(Letters)

\* C16 amended: the same, the letters kept being a to z only.
C16_NormalizerKeepsAsciiLetters == Detected => NormalizedAs(AsciiLetters)

\* C16 witness: the two Starbucks descriptions grouped under one key.
C16_Witness ==
  /\ Detected
  /\ transactions = DescriptionPair(Starbucks1234, Starbucks5678)
  /\ Len(OfType(patterns, "recurring_charge")) = 1

----------------------------------------------------------------------------
(* Properties of repeated calls *)

----------------------------------------------------------------------------
(* Properties of the cadence test *)

\* the gaps between the consecutive dates of g, in days
GapsOf(g) ==
  LET ds == SetToSeq({g[i].date : i \in 1..Len(g)})
  IN {Num(ds[i + 1] - ds[i], DayLength) : i \in 1..(Len(ds) - 1)}
       \cup {Val(0) : i \in {j \in 1..Len(g) :
                                \E k \in 1..Len(g) : k # j /\ g[k].date = g[j].date}}

\* a week or less, or as far above the window as a week is below it
FarFromMonthly(gap) == Le(gap, Val(7)) \/ Ge(gap, Val(53))

\* C18: no recurring_charge pattern is returned for a group with a gap
\* between consecutive charges that is far outside 25 to 35 days, such as the
\* week between day 0 and day 7 of the dates day 0, day 7, day 60.
C18_EvenlySpaced ==
  Detected =>
    \A i \in 1..Len(patterns) :
      patterns[i].type = "recurring_charge" =>
        \A gap \in GapsOf(patterns[i].transactions) : ~FarFromMonthly(gap)

----------------------------------------------------------------------------
(* Properties of the trend over several months *)

\* two months of expenses and nothing in between
TwoMonths(first, last) ==
  <<Txn(Day(0), Groceries, first, Food, FALSE),
    Txn(Day(31), Groceries, last, Food, FALSE)>>

\* C19: the trend patterns returned for an input are those findTrends
\* returns for any input with the same total in its earliest month and the
\* same total in its latest month, here the input of these two months alone:
\* the months in between change neither whether a trend is emitted nor its
\* direction, percentage, severity or impact.
C19_TrendOfEndsOnly ==
  Detected =>
    OfType(patterns, "trend") =
      IF AllMonths = {} THEN <<>>
      ELSE findTrends(TwoMonths(SpentIn(FirstMonth), SpentIn(LastMonth)))

\* C19 witness: a trend returned for expenses of three months or more, with
\* a month in between that spent more than the first and the last one.
C19_Witness ==
  /\ Detected
  /\ Cardinality(AllMonths) >= 3
  /\ OfType(patterns, "trend") # <<>>
  /\ \E m \in AllMonths \ {FirstMonth, LastMonth} :
       Gt(SpentIn(m), SpentIn(FirstMonth)) /\ Gt(SpentIn(m), SpentIn(LastMonth))

----------------------------------------------------------------------------
(* Properties of the argument *)

----------------------------------------------------------------------------
(* Properties of small inputs *)

\* C22: with 10 or fewer expense transactions no anomaly pattern is returned,
\* whatever the amounts.
C22_NoAnomalyUpToTen ==
  (Detected /\ Len(Expenses) <= 10) => OfType(patterns, "anomaly") = <<>>

----------------------------------------------------------------------------
(* Properties of income in the detectors *)

HasIncome(g) == \E i \in 1..Len(g) : g[i].isIncome

\* C23: every group with income among its members that passes the amount
\* test and the cadence test is returned as one recurring_charge pattern, and
\* no anomaly pattern is returned for a transaction with the normalized
\* description of such a group, however far above the mean its amount is.
C23_IncomeRecurring ==
  Detected =>
    \A k \in GroupKeys :
      (HasIncome(GroupOf(k)) /\ Passes(GroupOf(k), TRUE)) =>
        /\ Cardinality({i \in 1..Len(patterns) :
                          /\ patterns[i].type = "recurring_charge"
                          /\ patterns[i].transactions = GroupOf(k)}) = 1
        /\ \A i \in 1..Len(patterns) :
             patterns[i].type = "anomaly" =>
               descKey(patterns[i].transactions[1]) # k

\* C23 witness: two salary deposits and a purchase described like them were
\* returned as one recurring_charge pattern; the purchase lies more than
\* three standard deviations above the mean of the expenses and no anomaly
\* was returned.
C23_Witness ==
  /\ Detected
  /\ OfType(patterns, "anomaly") = <<>>
  /\ \E i \in 1..Len(patterns) :
       /\ patterns[i].type = "recurring_charge"
       /\ HasIncome(patterns[i].transactions)
       /\ \E j \in 1..Len(patterns[i].transactions) :
            /\ ~patterns[i].transactions[j].isIncome
            /\ FarAboveMean(patterns[i].transactions[j].amount)

----------------------------------------------------------------------------
(* Properties of the agent *)

Tools == <<"categorizer", "calculator", "patternDetector", "insightGenerator">>

\* the steps run so far in which tool was run
Runs(tool) == {k \in 1..Len(executed) : executed[k] = tool}

\* C21: the plan is categorizer, calculator, patternDetector,
\* insightGenerator in this order, with patternDetector if and only if there
\* are more than 20 transactions; the steps are run in the order of the plan,
\* each at most once; metrics are computed after the categorization, from
\* the categorized transactions, and are not null when the insights are
\* generated and when the report is built; pattern detection runs only with
\* more than 20 transactions; a run that returns has run the whole plan.
C21_PlanOrder ==
  /\ pc # "createPlan" =>
       plan = SelectSeq(Tools, LAMBDA tool :
                tool = "patternDetector" => Len(transactions) > 20)
  /\ Len(executed) <= Len(plan)
  /\ \A k \in 1..Len(executed) : executed[k] = plan[k]
  /\ \A tool \in Range(Tools) : Cardinality(Runs(tool)) <= 1
  /\ metrics # <<>> =>
       /\ \E c \in Runs("categorizer") : \E m \in Runs("calculator") : c < m
       /\ \A k \in 1..Len(transactions) :
            transactions[k] = ruleBasedCategorization(transactions[k])
       /\ metrics = <<calculateMetrics(transactions)>>
  /\ insights # <<>> =>
       /\ insights[1].metrics # <<>>
       /\ insights[1].metrics = metrics
  /\ report # <<>> =>
       /\ report[1].metrics # <<>>
       /\ report[1].insights # <<>>
  /\ pc # "thrown"
  /\ (Runs("patternDetector") # {} \/ patterns # <<>>) => Len(transactions) > 20
  /\ pc = "returned" =>
       /\ executed = plan
       /\ report # <<>>
       /\ Len(transactions) > 20 => Runs("patternDetector") # {}

\* C21 witness: a run on 21 transactions has returned its report after the
\* four steps, with patterns detected and a category other than "Other" in
\* the breakdown of the metrics.
C21_Witness ==
  /\ pc = "returned"
  /\ Len(transactions) = 21
  /\ executed = Tools
  /\ report # <<>>
  /\ report[1].patterns # <<>>
  /\ \E k \in 1..Len(report[1].metrics[1].categoryBreakdown) :
       report[1].metrics[1].categoryBreakdown[k].category = "Housing"

====
